---- MODULE Spec2Model ----
(***************************************************************************)
(* A model of mixpanel-react-native's index.js: the Mixpanel, People and   *)
(* MixpanelGroup facades in front of the native module                     *)
(* MixpanelReactNative.  The state is the heap of facade instances, the    *)
(* log of calls the native module has received, the log of facade calls    *)
(* the application has made with their outcomes; a call of an async        *)
(* function is pending until the native module's promise resolves.         *)
(*                                                                         *)
(* JavaScript values are tagged records; the text of a string is a         *)
(* sequence of one-character strings, so that the regular expression of    *)
(* StringHelper.isValid and parseFloat work on characters.  Numbers are    *)
(* integers, NaN and the two infinities.                                   *)
(***************************************************************************)
EXTENDS Integers, Sequences, FiniteSets, TLC

\* heap:     the facade instances constructed so far; an instance's identity is
\*           its index
\* tracker:  the Mixpanel instance the application holds
\* delegate: the calls MixpanelReactNative has received, in order
\* calls:    the facade calls the application has made, in order, each with its
\*           outcome, the length of delegate when it was invoked (at) and the
\*           number of native calls it made then (sent)
\* platform: Platform.OS
VARIABLES heap, tracker, delegate, calls, platform

vars == <<heap, tracker, delegate, calls, platform>>

\* the number of facade calls a behaviour of the model makes
MaxCalls == 2

(***************************************************************************)
(* JavaScript values                                                       *)
(***************************************************************************)
Undef == [t |-> "undefined"]

Null == [t |-> "null"]

Bool(b) == [t |-> "boolean", b |-> b]

Num(n) == [t |-> "number", n |-> n]

NaN == [t |-> "nan"]

Inf(neg) == [t |-> "infinity", neg |-> neg]

Str(s) == [t |-> "string", s |-> s]

Arr(a) == [t |-> "array", a |-> a]

Obj(o) == [t |-> "object", o |-> o]

EmptyObj == Obj(<<>>)

\* a reference to an instance or to an object of the heap
Ref(id) == [t |-> "ref", id |-> id]

\* typeof v
TypeOf(v) ==
    CASE v.t = "undefined" -> "undefined"
      [] v.t = "boolean" -> "boolean"
      [] v.t \in {"number", "nan", "infinity"} -> "number"
      [] v.t = "string" -> "string"
      [] OTHER -> "object"

\* ToBoolean(v), as used by v || w
Truthy(v) ==
    CASE v.t \in {"undefined", "null", "nan"} -> FALSE
      [] v.t = "boolean" -> v.b
      [] v.t = "number" -> v.n # 0
      [] v.t = "string" -> v.s # <<>>
      [] OTHER -> TRUE

\* v || w
OrElse(v, w) == IF Truthy(v) THEN v ELSE w

Digits == <<"0", "1", "2", "3", "4", "5", "6", "7", "8", "9">>

DigitChars == {Digits[i] : i \in 1..10}

DigitValue(c) == (CHOOSE i \in 1..10 : Digits[i] = c) - 1

\* the characters \s of a regular expression matches, among those of the model
WhiteSpace == {" ", "\t", "\n"}

RECURSIVE NatToChars(_)
NatToChars(n) ==
    IF n < 10 THEN <<Digits[n + 1]>>
    ELSE NatToChars(n \div 10) \o <<Digits[(n % 10) + 1]>>

InfinityChars == <<"I", "n", "f", "i", "n", "i", "t", "y">>

RECURSIVE JoinChars(_, _)
\* ToString(v), the text parseFloat and a computed property name convert v to
RECURSIVE ToChars(_)
ToChars(v) ==
    CASE v.t = "undefined" -> <<"u", "n", "d", "e", "f", "i", "n", "e", "d">>
      [] v.t = "null" -> <<"n", "u", "l", "l">>
      [] v.t = "boolean" -> IF v.b THEN <<"t", "r", "u", "e">>
                            ELSE <<"f", "a", "l", "s", "e">>
      [] v.t = "number" -> IF v.n < 0 THEN <<"-">> \o NatToChars(-v.n)
                           ELSE NatToChars(v.n)
      [] v.t = "nan" -> <<"N", "a", "N">>
      [] v.t = "infinity" -> IF v.neg THEN <<"-">> \o InfinityChars
                             ELSE InfinityChars
      [] v.t = "string" -> v.s
      [] v.t = "array" -> JoinChars(v.a, 1)
      [] OTHER -> <<"[", "o", "b", "j", "e", "c", "t", " ",
                    "O", "b", "j", "e", "c", "t", "]">>

\* Array.prototype.join(","): undefined and null elements give the empty text
JoinChars(a, i) ==
    IF i > Len(a) THEN <<>>
    ELSE (IF a[i].t \in {"undefined", "null"} THEN <<>> ELSE ToChars(a[i]))
         \o (IF i < Len(a) THEN <<",">> ELSE <<>>)
         \o JoinChars(a, i + 1)

RECURSIVE SkipWhite(_)
SkipWhite(s) ==
    IF s # <<>> /\ Head(s) \in WhiteSpace THEN SkipWhite(Tail(s)) ELSE s

IsPrefix(p, s) == Len(p) <= Len(s) /\ SubSeq(s, 1, Len(p)) = p

RECURSIVE DigitRun(_, _)
\* the value of the longest run of digits s starts with, after acc
DigitRun(s, acc) ==
    IF s # <<>> /\ Head(s) \in DigitChars
    THEN DigitRun(Tail(s), 10 * acc + DigitValue(Head(s)))
    ELSE acc

\* parseFloat(v): the text of v without its leading white space, an optional
\* sign, then Infinity or the longest run of digits; NaN when neither is there
ParseFloat(v) ==
    LET s == SkipWhite(ToChars(v))
        neg == s # <<>> /\ Head(s) = "-"
        u == IF s # <<>> /\ Head(s) \in {"-", "+"} THEN Tail(s) ELSE s
    IN  IF IsPrefix(InfinityChars, u) THEN Inf(neg)
        ELSE IF u # <<>> /\ Head(u) \in DigitChars
             THEN Num(IF neg THEN -DigitRun(u, 0) ELSE DigitRun(u, 0))
             ELSE NaN

\* isNaN(x) of a number x
IsNaN(x) == x.t = "nan"

\* Array.isArray(v)
IsArray(v) == v.t = "array"

RECURSIVE JsonCopy(_)
\* JSON.parse(JSON.stringify(v)) of a value JSON.stringify gives a text for:
\* a property whose value is undefined is dropped, an undefined array element
\* and the numbers NaN and Infinity become null
JsonCopy(v) ==
    CASE v.t = "object" ->
             Obj([k \in {j \in DOMAIN v.o : v.o[j].t # "undefined"} |-> JsonCopy(v.o[k])])
      [] v.t = "array" ->
             Arr([i \in 1..Len(v.a) |->
                     IF v.a[i].t = "undefined" THEN Null ELSE JsonCopy(v.a[i])])
      [] v.t \in {"nan", "infinity"} -> Null
      \* an object the caller holds is read as it is now, and built anew
      [] v.t = "ref" -> JsonCopy(heap[v.id].value)
      [] OTHER -> v

\* the own enumerable properties of v, as {...v} and Object.keys(v) see them:
\* the properties of an object, the indices of an array or of a string
OwnProps(v) ==
    CASE v.t = "object" -> v.o
      [] v.t = "array" ->
             [k \in {NatToChars(i - 1) : i \in 1..Len(v.a)} |->
                 v.a[CHOOSE i \in 1..Len(v.a) : NatToChars(i - 1) = k]]
      [] v.t = "string" ->
             [k \in {NatToChars(i - 1) : i \in 1..Len(v.s)} |->
                 Str(<<v.s[CHOOSE i \in 1..Len(v.s) : NatToChars(i - 1) = k]>>)]
      [] OTHER -> <<>>

\* {...b, ...a}: the spread with the operands in the other order
SpreadMerge_firstWins(a, b) == Obj(OwnProps(a) @@ OwnProps(b))

\* {...a, ...b}
SpreadMerge(a, b) == Obj(OwnProps(b) @@ OwnProps(a))

(***************************************************************************)
(* Constants of index.js                                                   *)
(***************************************************************************)
DevicePlatform == [Unknown |-> "Unknown", Android |-> "android", iOS |-> "ios"]

ERROR_MESSAGE ==
    [INVALID_OBJECT |-> " is not a valid json object",
     INVALID_STRING |-> " is not a valid string",
     REQUIRED_DOUBLE |-> " is not a valid number"]

PARAMS ==
    [TOKEN |-> "token", DISTINCT_ID |-> "distinctId", ALIAS |-> "alias",
     EVENT_NAME |-> "eventName", GROUP_KEY |-> "groupKey",
     PROPERTIES |-> "properties", PROPERTY_NAME |-> "propertyName",
     PROP |-> "prop", NAME |-> "name", CHARGE |-> "charge",
     PROPERTY_VALUE |-> "property value"]

DEFAULT_OPT_OUT == Bool(FALSE)

\* package.json, which index.js imports: its metadata object and its version
packageJson ==
    [metadata |-> Obj(<<"m", "p", "_", "l", "i", "b">> :> Str(<<"r", "n">>)),
     version |-> Str(<<"1", ".", "3">>)]

LibVersionKey == <<"$", "l", "i", "b", "_", "v", "e", "r", "s", "i", "o", "n">>

(***************************************************************************)
(* Outcomes of a facade call: what it returns or throws, and the calls it  *)
(* has made on the native module MixpanelReactNative by then               *)
(***************************************************************************)
NativeCall(op, args) == [op |-> op, args |-> args]

\* the call ends normally after the native calls sent
Returns(sent, ret) == [result |-> "ok", msg |-> "", sent |-> sent, ret |-> ret]

\* throw new Error(msg)
Throws(msg) == [result |-> "Error", msg |-> msg, sent |-> <<>>, ret |-> Undef]

\* an exception of the runtime itself (Object.keys(null))
ThrowsTypeError == [result |-> "TypeError", msg |-> "", sent |-> <<>>, ret |-> Undef]

\* the promise the native module returns
NativePromise == [t |-> "promise"]

(***************************************************************************)
(* class Helper, class StringHelper, class ObjectHelper                    *)
(***************************************************************************)
Helper_getMetaData ==
    Obj((LibVersionKey :> packageJson.version) @@ JsonCopy(packageJson.metadata).o)

\* a resolution that takes every platform but android for iOS
Helper_getDevicePlatform_iosUnlessAndroid ==
    CASE platform = "android" -> DevicePlatform.Android
      [] OTHER -> DevicePlatform.iOS

Helper_getDevicePlatform ==
    CASE platform = "android" -> DevicePlatform.Android
      [] platform = "ios" -> DevicePlatform.iOS
      [] OTHER -> DevicePlatform.Unknown

\* /^\s*$/.test(str)
IsBlank(s) == \A i \in 1..Len(s) : s[i] \in WhiteSpace

\* an isValid that takes every string but the empty one for valid
StringHelper_isValid_nonEmpty(str) == TypeOf(str) = "string" /\ str.s # <<>>

StringHelper_isValid(str) == TypeOf(str) = "string" /\ ~IsBlank(str.s)

StringHelper_isValidOrUndefined(str) == str = Undef \/ StringHelper_isValid(str)

StringHelper_raiseError(paramName) == Throws(paramName \o ERROR_MESSAGE.INVALID_STRING)

\* an isValid that takes null for no object
ObjectHelper_isValid_notNull(obj) == TypeOf(obj) = "object" /\ obj # Null

ObjectHelper_isValid(obj) == TypeOf(obj) = "object"

ObjectHelper_isValidOrUndefined(obj) == obj = Undef \/ ObjectHelper_isValid(obj)

ObjectHelper_raiseError(paramName) == Throws(paramName \o ERROR_MESSAGE.INVALID_OBJECT)

(***************************************************************************)
(* Facade calls                                                            *)
(***************************************************************************)
CanCall == Len(calls) < MaxCalls

CallRecord(op, this, args, out) ==
    [op |-> op, this |-> this, args |-> args, result |-> out.result,
     msg |-> out.msg, ret |-> out.ret, at |-> Len(delegate), sent |-> Len(out.sent)]

\* the application calls a method of the instance this with args; out is what
\* the body of the method does
Invoke(op, this, args, out) ==
    /\ CanCall
    /\ calls' = Append(calls, CallRecord(op, this, args, out))
    /\ delegate' = delegate \o out.sent
    /\ UNCHANGED <<heap, tracker, platform>>

\* an async function has run up to its await of the native promise
Awaits(sent) == [result |-> "pending", msg |-> "", sent |-> sent, ret |-> Undef]

Instances(cls) == {i \in 1..Len(heap) : heap[i].cls = cls}

(***************************************************************************)
(* Constructors: the heap after new C(...), and the outcome                *)
(***************************************************************************)
NewPeople(h, token) ==
    IF ~StringHelper_isValid(token)
    THEN [out |-> StringHelper_raiseError(PARAMS.TOKEN), heap |-> h]
    ELSE [out |-> Returns(<<>>, Ref(Len(h) + 1)),
          heap |-> Append(h, [cls |-> "People", token |-> token])]

NewMixpanel(h, token) ==
    IF ~StringHelper_isValid(token)
    THEN [out |-> StringHelper_raiseError(PARAMS.TOKEN), heap |-> h]
    ELSE LET this == Len(h) + 1
             \* this.people = new People(this.token), allocated after this
             people == NewPeople(Append(h, [cls |-> "Mixpanel", token |-> token,
                                            people |-> 0]), token)
         IN  IF people.out.result # "ok" THEN [out |-> people.out, heap |-> h]
             ELSE [out |-> Returns(<<>>, Ref(this)),
                   heap |-> [people.heap EXCEPT ![this].people = people.out.ret.id]]

NewMixpanelGroup(h, token, groupKey, groupID) ==
    IF ~StringHelper_isValid(token)
    THEN [out |-> StringHelper_raiseError(PARAMS.TOKEN), heap |-> h]
    ELSE [out |-> Returns(<<>>, Ref(Len(h) + 1)),
          heap |-> Append(h, [cls |-> "MixpanelGroup", token |-> token,
                              groupKey |-> groupKey, groupID |-> groupID])]

\* new Mixpanel(token); the application holds the instance it gets
Mixpanel_constructor(token) ==
    LET new == NewMixpanel(heap, token)
    IN  /\ CanCall
        /\ calls' = Append(calls, CallRecord("new Mixpanel", 0, <<token>>, new.out))
        /\ heap' = new.heap
        /\ tracker' = IF new.out.result = "ok" THEN new.out.ret.id ELSE tracker
        /\ UNCHANGED <<delegate, platform>>

\* new People(token)
People_constructor(token) ==
    LET new == NewPeople(heap, token)
    IN  /\ CanCall
        /\ calls' = Append(calls, CallRecord("new People", 0, <<token>>, new.out))
        /\ heap' = new.heap
        /\ UNCHANGED <<tracker, delegate, platform>>

\* new MixpanelGroup(token, groupKey, groupID)
MixpanelGroup_constructor(token, groupKey, groupID) ==
    LET new == NewMixpanelGroup(heap, token, groupKey, groupID)
    IN  /\ CanCall
        /\ calls' = Append(calls, CallRecord("new MixpanelGroup", 0,
                                             <<token, groupKey, groupID>>, new.out))
        /\ heap' = new.heap
        /\ UNCHANGED <<tracker, delegate, platform>>

(***************************************************************************)
(* class Mixpanel                                                          *)
(***************************************************************************)
\* a parameter with a default value takes it when the argument is undefined
Default(arg, value) == IF arg = Undef THEN value ELSE arg

\* async init(optOutTrackingDefault = DEFAULT_OPT_OUT, superProperties = {}):
\* the body runs up to the await when init is called
Mixpanel_init(optOutTrackingDefault, superProperties) ==
    /\ tracker # 0
    /\ LET metadata == Helper_getMetaData
       IN  Invoke("Mixpanel.init", tracker, <<optOutTrackingDefault, superProperties>>,
               Awaits(<<NativeCall("initialize",
                   <<heap[tracker].token, Default(optOutTrackingDefault, DEFAULT_OPT_OUT),
                     SpreadMerge(metadata, Default(superProperties, EmptyObj))>>)>>))

\* the native promise init awaits resolves: init returns
Mixpanel_init_resume(i) ==
    /\ calls[i].op = "Mixpanel.init"
    /\ calls[i].result = "pending"
    /\ calls' = [calls EXCEPT ![i].result = "ok"]
    /\ UNCHANGED <<heap, tracker, delegate, platform>>

\* static async init(token, optOutTrackingDefault = DEFAULT_OPT_OUT), up to its
\* await
Mixpanel_static_init(token, optOutTrackingDefault) ==
    /\ CanCall
    /\ LET metadata == Helper_getMetaData
       IN  Invoke("static Mixpanel.init", 0, <<token, optOutTrackingDefault>>,
               Awaits(<<NativeCall("initialize",
                   <<token, Default(optOutTrackingDefault, DEFAULT_OPT_OUT),
                     metadata>>)>>))

\* the native promise resolves: return new Mixpanel(token), which rejects the
\* promise of init when the constructor throws
Mixpanel_static_init_resume(i) ==
    /\ calls[i].op = "static Mixpanel.init"
    /\ calls[i].result = "pending"
    /\ LET new == NewMixpanel(heap, calls[i].args[1])
       IN  /\ calls' = [calls EXCEPT ![i].result = new.out.result,
                                     ![i].msg = new.out.msg,
                                     ![i].ret = new.out.ret]
           /\ heap' = new.heap
           /\ tracker' = IF new.out.result = "ok" THEN new.out.ret.id ELSE tracker
    /\ UNCHANGED <<delegate, platform>>

\* the methods that pass their argument on unchecked: setServerURL,
\* setLoggingEnabled, setFlushOnBackground, setUseIpAddressForGeolocation
Mixpanel_setServerURL(serverURL) ==
    /\ tracker # 0
    /\ Invoke("Mixpanel.setServerURL", tracker, <<serverURL>>,
           Returns(<<NativeCall("setServerURL", <<heap[tracker].token, serverURL>>)>>, Undef))

Mixpanel_setLoggingEnabled(loggingEnabled) ==
    /\ tracker # 0
    /\ Invoke("Mixpanel.setLoggingEnabled", tracker, <<loggingEnabled>>,
           Returns(<<NativeCall("setLoggingEnabled",
                                <<heap[tracker].token, loggingEnabled>>)>>, Undef))

Mixpanel_setFlushOnBackground(flushOnBackground) ==
    /\ tracker # 0
    /\ Invoke("Mixpanel.setFlushOnBackground", tracker, <<flushOnBackground>>,
           Returns(<<NativeCall("setFlushOnBackground",
                                <<heap[tracker].token, flushOnBackground>>)>>, Undef))

Mixpanel_setUseIpAddressForGeolocation(useIpAddressForGeolocation) ==
    /\ tracker # 0
    /\ Invoke("Mixpanel.setUseIpAddressForGeolocation", tracker,
           <<useIpAddressForGeolocation>>,
           Returns(<<NativeCall("setUseIpAddressForGeolocation",
                                <<heap[tracker].token, useIpAddressForGeolocation>>)>>, Undef))

Mixpanel_optInTracking ==
    /\ tracker # 0
    /\ Invoke("Mixpanel.optInTracking", tracker, <<>>,
           Returns(<<NativeCall("optInTracking", <<heap[tracker].token>>)>>, Undef))

Mixpanel_optOutTracking ==
    /\ tracker # 0
    /\ Invoke("Mixpanel.optOutTracking", tracker, <<>>,
           Returns(<<NativeCall("optOutTracking", <<heap[tracker].token>>)>>, Undef))

Mixpanel_clearSuperProperties ==
    /\ tracker # 0
    /\ Invoke("Mixpanel.clearSuperProperties", tracker, <<>>,
           Returns(<<NativeCall("clearSuperProperties", <<heap[tracker].token>>)>>, Undef))

Mixpanel_reset ==
    /\ tracker # 0
    /\ Invoke("Mixpanel.reset", tracker, <<>>,
           Returns(<<NativeCall("reset", <<heap[tracker].token>>)>>, Undef))

Mixpanel_flush ==
    /\ tracker # 0
    /\ Invoke("Mixpanel.flush", tracker, <<>>,
           Returns(<<NativeCall("flush", <<heap[tracker].token>>)>>, Undef))

Mixpanel_hasOptedOutTracking ==
    /\ tracker # 0
    /\ Invoke("Mixpanel.hasOptedOutTracking", tracker, <<>>,
           Returns(<<NativeCall("hasOptedOutTracking", <<heap[tracker].token>>)>>, NativePromise))

Mixpanel_getSuperProperties ==
    /\ tracker # 0
    /\ Invoke("Mixpanel.getSuperProperties", tracker, <<>>,
           Returns(<<NativeCall("getSuperProperties", <<heap[tracker].token>>)>>, NativePromise))

Mixpanel_getDistinctId ==
    /\ tracker # 0
    /\ Invoke("Mixpanel.getDistinctId", tracker, <<>>,
           Returns(<<NativeCall("getDistinctId", <<heap[tracker].token>>)>>, NativePromise))

Mixpanel_identify(distinctId) ==
    /\ tracker # 0
    /\ Invoke("Mixpanel.identify", tracker, <<distinctId>>,
           IF ~StringHelper_isValid(distinctId)
           THEN StringHelper_raiseError(PARAMS.DISTINCT_ID)
           ELSE Returns(<<NativeCall("identify", <<heap[tracker].token, distinctId>>)>>,
                        Undef))

Mixpanel_alias(alias, distinctId) ==
    /\ tracker # 0
    /\ Invoke("Mixpanel.alias", tracker, <<alias, distinctId>>,
           IF ~StringHelper_isValid(alias)
           THEN StringHelper_raiseError(PARAMS.ALIAS)
           ELSE IF ~StringHelper_isValid(distinctId)
           THEN StringHelper_raiseError(PARAMS.DISTINCT_ID)
           ELSE Returns(<<NativeCall("alias", <<heap[tracker].token, alias, distinctId>>)>>,
                        Undef))

Mixpanel_track(eventName, properties) ==
    /\ tracker # 0
    /\ Invoke("Mixpanel.track", tracker, <<eventName, properties>>,
           IF ~StringHelper_isValid(eventName)
           THEN StringHelper_raiseError(PARAMS.EVENT_NAME)
           ELSE IF ~ObjectHelper_isValidOrUndefined(properties)
           THEN ObjectHelper_raiseError(PARAMS.PROPERTIES)
           ELSE Returns(<<NativeCall("track",
                    <<heap[tracker].token, eventName, OrElse(properties, EmptyObj)>>)>>,
                    Undef))

\* a getPeople that builds a People for the token on every call
Mixpanel_getPeople_perCall ==
    LET new == NewPeople(heap, heap[tracker].token)
    IN  /\ tracker # 0
        /\ CanCall
        /\ calls' = Append(calls, CallRecord("Mixpanel.getPeople", tracker, <<>>, new.out))
        /\ heap' = new.heap
        /\ UNCHANGED <<tracker, delegate, platform>>

Mixpanel_getPeople ==
    /\ tracker # 0
    /\ Invoke("Mixpanel.getPeople", tracker, <<>>,
           Returns(<<>>, Ref(heap[tracker].people)))

Mixpanel_trackWithGroups(eventName, properties, groups) ==
    /\ tracker # 0
    /\ Invoke("Mixpanel.trackWithGroups", tracker, <<eventName, properties, groups>>,
           IF ~StringHelper_isValid(eventName)
           THEN StringHelper_raiseError(PARAMS.EVENT_NAME)
           ELSE IF ~ObjectHelper_isValidOrUndefined(properties)
           THEN ObjectHelper_raiseError(PARAMS.PROPERTIES)
           ELSE Returns(<<NativeCall("trackWithGroups",
                    <<heap[tracker].token, eventName, OrElse(properties, EmptyObj),
                      groups>>)>>, Undef))

Mixpanel_setGroup(groupKey, groupID) ==
    /\ tracker # 0
    /\ Invoke("Mixpanel.setGroup", tracker, <<groupKey, groupID>>,
           IF ~StringHelper_isValid(groupKey)
           THEN StringHelper_raiseError(PARAMS.GROUP_KEY)
           ELSE Returns(<<NativeCall("setGroup", <<heap[tracker].token, groupKey, groupID>>)>>,
                        Undef))

Mixpanel_addGroup(groupKey, groupID) ==
    /\ tracker # 0
    /\ Invoke("Mixpanel.addGroup", tracker, <<groupKey, groupID>>,
           IF ~StringHelper_isValid(groupKey)
           THEN StringHelper_raiseError(PARAMS.GROUP_KEY)
           ELSE Returns(<<NativeCall("addGroup", <<heap[tracker].token, groupKey, groupID>>)>>,
                        Undef))

Mixpanel_removeGroup(groupKey, groupID) ==
    /\ tracker # 0
    /\ Invoke("Mixpanel.removeGroup", tracker, <<groupKey, groupID>>,
           IF ~StringHelper_isValid(groupKey)
           THEN StringHelper_raiseError(PARAMS.GROUP_KEY)
           ELSE Returns(<<NativeCall("removeGroup", <<heap[tracker].token, groupKey, groupID>>)>>,
                        Undef))

Mixpanel_deleteGroup(groupKey, groupID) ==
    /\ tracker # 0
    /\ Invoke("Mixpanel.deleteGroup", tracker, <<groupKey, groupID>>,
           IF ~StringHelper_isValid(groupKey)
           THEN StringHelper_raiseError(PARAMS.GROUP_KEY)
           ELSE Returns(<<NativeCall("deleteGroup", <<heap[tracker].token, groupKey, groupID>>)>>,
                        Undef))

\* a getGroup that keeps the handles it made and returns the one it has for
\* (token, groupKey, groupID)
Mixpanel_getGroup_cached(groupKey, groupID) ==
    LET new == NewMixpanelGroup(heap, heap[tracker].token, groupKey, groupID)
        made == {h \in Instances("MixpanelGroup") :
                    /\ heap[h].token = heap[tracker].token
                    /\ heap[h].groupKey = groupKey
                    /\ heap[h].groupID = groupID}
        out == IF made = {} THEN new.out ELSE Returns(<<>>, Ref(CHOOSE h \in made : TRUE))
    IN  /\ tracker # 0
        /\ CanCall
        /\ calls' = Append(calls, CallRecord("Mixpanel.getGroup", tracker,
                                             <<groupKey, groupID>>, out))
        /\ heap' = IF made = {} THEN new.heap ELSE heap
        /\ UNCHANGED <<tracker, delegate, platform>>

Mixpanel_getGroup(groupKey, groupID) ==
    LET new == NewMixpanelGroup(heap, heap[tracker].token, groupKey, groupID)
    IN  /\ tracker # 0
        /\ CanCall
        /\ calls' = Append(calls, CallRecord("Mixpanel.getGroup", tracker,
                                             <<groupKey, groupID>>, new.out))
        /\ heap' = new.heap
        /\ UNCHANGED <<tracker, delegate, platform>>

Mixpanel_registerSuperProperties(properties) ==
    /\ tracker # 0
    /\ Invoke("Mixpanel.registerSuperProperties", tracker, <<properties>>,
           IF ~ObjectHelper_isValidOrUndefined(properties)
           THEN ObjectHelper_raiseError(PARAMS.PROPERTIES)
           ELSE Returns(<<NativeCall("registerSuperProperties",
                    <<heap[tracker].token, OrElse(properties, EmptyObj)>>)>>, Undef))

Mixpanel_registerSuperPropertiesOnce(properties) ==
    /\ tracker # 0
    /\ Invoke("Mixpanel.registerSuperPropertiesOnce", tracker, <<properties>>,
           IF ~ObjectHelper_isValidOrUndefined(properties)
           THEN ObjectHelper_raiseError(PARAMS.PROPERTIES)
           ELSE Returns(<<NativeCall("registerSuperPropertiesOnce",
                    <<heap[tracker].token, OrElse(properties, EmptyObj)>>)>>, Undef))

Mixpanel_unregisterSuperProperty(propertyName) ==
    /\ tracker # 0
    /\ Invoke("Mixpanel.unregisterSuperProperty", tracker, <<propertyName>>,
           IF ~StringHelper_isValid(propertyName)
           THEN StringHelper_raiseError(PARAMS.PROPERTY_NAME)
           ELSE Returns(<<NativeCall("unregisterSuperProperty",
                    <<heap[tracker].token, propertyName>>)>>, Undef))

Mixpanel_timeEvent(eventName) ==
    /\ tracker # 0
    /\ Invoke("Mixpanel.timeEvent", tracker, <<eventName>>,
           IF ~StringHelper_isValid(eventName)
           THEN StringHelper_raiseError(PARAMS.EVENT_NAME)
           ELSE Returns(<<NativeCall("timeEvent", <<heap[tracker].token, eventName>>)>>,
                        Undef))

Mixpanel_eventElapsedTime(eventName) ==
    /\ tracker # 0
    /\ Invoke("Mixpanel.eventElapsedTime", tracker, <<eventName>>,
           IF ~StringHelper_isValid(eventName)
           THEN StringHelper_raiseError(PARAMS.EVENT_NAME)
           ELSE Returns(<<NativeCall("eventElapsedTime",
                    <<heap[tracker].token, eventName>>)>>, NativePromise))

(***************************************************************************)
(* class People                                                            *)
(***************************************************************************)
\* a set that copies the properties of an object prop, not what they refer to
People_set_shallow(this, prop, to) ==
    /\ this \in Instances("People")
    /\ Invoke("People.set", this, <<prop, to>>,
           IF ObjectHelper_isValid(prop)
           THEN Returns(<<NativeCall("set",
                    <<heap[this].token,
                      IF prop.t = "ref" THEN heap[prop.id].value
                      ELSE JsonCopy(OrElse(prop, EmptyObj))>>)>>, Undef)
           ELSE IF ~StringHelper_isValid(prop)
           THEN StringHelper_raiseError(PARAMS.PROP)
           ELSE Returns(<<NativeCall("set", <<heap[this].token, Obj(prop.s :> to)>>)>>, Undef))

People_set(this, prop, to) ==
    /\ this \in Instances("People")
    /\ Invoke("People.set", this, <<prop, to>>,
           IF ObjectHelper_isValid(prop)
           THEN Returns(<<NativeCall("set",
                    <<heap[this].token, JsonCopy(OrElse(prop, EmptyObj))>>)>>, Undef)
           ELSE IF ~StringHelper_isValid(prop)
           THEN StringHelper_raiseError(PARAMS.PROP)
           ELSE Returns(<<NativeCall("set", <<heap[this].token, Obj(prop.s :> to)>>)>>, Undef))

People_setOnce(this, prop, to) ==
    /\ this \in Instances("People")
    /\ Invoke("People.setOnce", this, <<prop, to>>,
           IF ObjectHelper_isValid(prop)
           THEN Returns(<<NativeCall("setOnce",
                    <<heap[this].token, JsonCopy(OrElse(prop, EmptyObj))>>)>>, Undef)
           ELSE IF ~StringHelper_isValid(prop)
           THEN StringHelper_raiseError(PARAMS.PROP)
           ELSE Returns(<<NativeCall("setOnce", <<heap[this].token, Obj(prop.s :> to)>>)>>, Undef))

\* the error increment throws for a value or an amount that is no number
NotANumber == Throws(PARAMS.PROPERTY_VALUE \o ERROR_MESSAGE.REQUIRED_DOUBLE)

People_increment(this, prop, by) ==
    /\ this \in Instances("People")
    /\ Invoke("People.increment", this, <<prop, by>>,
           IF ObjectHelper_isValid(prop)
           THEN \* Object.keys(null) throws a TypeError
                IF prop = Null THEN ThrowsTypeError
                ELSE LET add == OwnProps(prop)
                     IN  IF \E key \in DOMAIN add : IsNaN(ParseFloat(add[key]))
                         THEN NotANumber
                         ELSE Returns(<<NativeCall("increment",
                                  <<heap[this].token, Obj(add)>>)>>, Undef)
           ELSE LET amount == OrElse(by, Num(1))
                IN  IF IsNaN(ParseFloat(amount)) THEN NotANumber
                    ELSE IF ~StringHelper_isValid(prop)
                    THEN StringHelper_raiseError(PARAMS.NAME)
                    ELSE Returns(<<NativeCall("increment",
                             <<heap[this].token, Obj(prop.s :> amount)>>)>>, Undef))

People_append(this, name, value) ==
    /\ this \in Instances("People")
    /\ Invoke("People.append", this, <<name, value>>,
           IF ~StringHelper_isValid(name)
           THEN StringHelper_raiseError(PARAMS.NAME)
           ELSE IF DevicePlatform.iOS = Helper_getDevicePlatform
           THEN Returns(<<NativeCall("append",
                    <<heap[this].token, Obj(name.s :> value)>>)>>, Undef)
           ELSE Returns(<<NativeCall("append", <<heap[this].token, name, value>>)>>,
                        Undef))

\* value = [value], whatever value is
AsArray_wrapped(value) == Arr(<<value>>)

\* value = Array.isArray(value) ? value : [value]
AsArray(value) == IF IsArray(value) THEN value ELSE Arr(<<value>>)

People_union(this, name, value) ==
    /\ this \in Instances("People")
    /\ Invoke("People.union", this, <<name, value>>,
           IF ~StringHelper_isValid(name)
           THEN StringHelper_raiseError(PARAMS.NAME)
           ELSE IF DevicePlatform.iOS = Helper_getDevicePlatform
           THEN Returns(<<NativeCall("union",
                    <<heap[this].token, Obj(name.s :> AsArray(value))>>)>>, Undef)
           ELSE Returns(<<NativeCall("union", <<heap[this].token, name, AsArray(value)>>)>>,
                        Undef))

People_remove(this, name, value) ==
    /\ this \in Instances("People")
    /\ Invoke("People.remove", this, <<name, value>>,
           IF ~StringHelper_isValid(name)
           THEN StringHelper_raiseError(PARAMS.NAME)
           ELSE IF DevicePlatform.iOS = Helper_getDevicePlatform
           THEN Returns(<<NativeCall("remove",
                    <<heap[this].token, Obj(name.s :> value)>>)>>, Undef)
           ELSE Returns(<<NativeCall("remove", <<heap[this].token, name, value>>)>>,
                        Undef))

People_unset(this, name) ==
    /\ this \in Instances("People")
    /\ Invoke("People.unset", this, <<name>>,
           IF ~StringHelper_isValid(name)
           THEN StringHelper_raiseError(PARAMS.PROPERTY_NAME)
           ELSE Returns(<<NativeCall("unset", <<heap[this].token, name>>)>>, Undef))

People_trackCharge(this, charge, properties) ==
    /\ this \in Instances("People")
    /\ Invoke("People.trackCharge", this, <<charge, properties>>,
           IF IsNaN(ParseFloat(charge))
           THEN Throws(PARAMS.CHARGE \o ERROR_MESSAGE.REQUIRED_DOUBLE)
           ELSE IF ~ObjectHelper_isValidOrUndefined(properties)
           THEN ObjectHelper_raiseError(PARAMS.PROPERTIES)
           ELSE Returns(<<NativeCall("trackCharge",
                    <<heap[this].token, charge, OrElse(properties, EmptyObj)>>)>>, Undef))

People_clearCharges(this) ==
    /\ this \in Instances("People")
    /\ Invoke("People.clearCharges", this, <<>>,
           Returns(<<NativeCall("clearCharges", <<heap[this].token>>)>>, Undef))

People_deleteUser(this) ==
    /\ this \in Instances("People")
    /\ Invoke("People.deleteUser", this, <<>>,
           Returns(<<NativeCall("deleteUser", <<heap[this].token>>)>>, Undef))

(***************************************************************************)
(* class MixpanelGroup                                                     *)
(***************************************************************************)
MixpanelGroup_set(this, prop, to) ==
    /\ this \in Instances("MixpanelGroup")
    /\ Invoke("MixpanelGroup.set", this, <<prop, to>>,
           IF ObjectHelper_isValid(prop)
           THEN Returns(<<NativeCall("groupSetProperties",
                    <<heap[this].token, heap[this].groupKey, heap[this].groupID, JsonCopy(OrElse(prop, EmptyObj))>>)>>, Undef)
           ELSE IF ~StringHelper_isValid(prop)
           THEN StringHelper_raiseError(PARAMS.PROP)
           ELSE Returns(<<NativeCall("groupSetProperties", <<heap[this].token, heap[this].groupKey, heap[this].groupID, Obj(prop.s :> to)>>)>>, Undef))

\* a setOnce that forwards an object prop itself, without properties = JSON copy
MixpanelGroup_setOnce_uncopied(this, prop, to) ==
    /\ this \in Instances("MixpanelGroup")
    /\ Invoke("MixpanelGroup.setOnce", this, <<prop, to>>,
           IF ObjectHelper_isValid(prop)
           THEN Returns(<<NativeCall("groupSetPropertyOnce",
                    <<heap[this].token, heap[this].groupKey, heap[this].groupID, prop>>)>>, Undef)
           ELSE IF ~StringHelper_isValid(prop)
           THEN StringHelper_raiseError(PARAMS.PROP)
           ELSE Returns(<<NativeCall("groupSetPropertyOnce", <<heap[this].token, heap[this].groupKey, heap[this].groupID, Obj(prop.s :> to)>>)>>, Undef))

MixpanelGroup_setOnce(this, prop, to) ==
    /\ this \in Instances("MixpanelGroup")
    /\ Invoke("MixpanelGroup.setOnce", this, <<prop, to>>,
           IF ObjectHelper_isValid(prop)
           THEN Returns(<<NativeCall("groupSetPropertyOnce",
                    <<heap[this].token, heap[this].groupKey, heap[this].groupID, JsonCopy(OrElse(prop, EmptyObj))>>)>>, Undef)
           ELSE IF ~StringHelper_isValid(prop)
           THEN StringHelper_raiseError(PARAMS.PROP)
           ELSE Returns(<<NativeCall("groupSetPropertyOnce", <<heap[this].token, heap[this].groupKey, heap[this].groupID, Obj(prop.s :> to)>>)>>, Undef))

MixpanelGroup_unset(this, prop) ==
    /\ this \in Instances("MixpanelGroup")
    /\ Invoke("MixpanelGroup.unset", this, <<prop>>,
           IF ~StringHelper_isValid(prop)
           THEN StringHelper_raiseError(PARAMS.PROPERTY_NAME)
           ELSE Returns(<<NativeCall("groupUnsetProperty",
                    <<heap[this].token, heap[this].groupKey, heap[this].groupID,
                      prop>>)>>, Undef))

MixpanelGroup_remove(this, name, value) ==
    /\ this \in Instances("MixpanelGroup")
    /\ Invoke("MixpanelGroup.remove", this, <<name, value>>,
           IF ~StringHelper_isValid(name)
           THEN StringHelper_raiseError(PARAMS.PROPERTY_NAME)
           ELSE Returns(<<NativeCall("groupRemovePropertyValue",
                    <<heap[this].token, heap[this].groupKey, heap[this].groupID,
                      name, value>>)>>, Undef))

MixpanelGroup_union(this, name, value) ==
    /\ this \in Instances("MixpanelGroup")
    /\ Invoke("MixpanelGroup.union", this, <<name, value>>,
           IF ~StringHelper_isValid(name)
           THEN StringHelper_raiseError(PARAMS.PROPERTY_NAME)
           ELSE Returns(<<NativeCall("groupUnionProperty",
                    <<heap[this].token, heap[this].groupKey, heap[this].groupID,
                      name, AsArray(value)>>)>>, Undef))

(***************************************************************************)
(* The arguments the application passes.  Spec, the model of sequences of  *)
(* facade calls, draws them from the Seq... sets; SpecCall, the model of   *)
(* one facade call, draws them from the Call... sets.                      *)
(***************************************************************************)
InitToken == Str(<<"a", "b", "c", "1", "2", "3">>)

InitGroupKey == Str(<<"c", "o">>)

\* Platform.OS
SeqPlatforms == {"ios", "android"}

CallPlatforms == {"ios", "android", "web", "windows"}

SeqTokens == {Str(<<>>), Str(<<"t">>)}

SeqNames == {Str(<<" ">>), Str(<<"a">>)}

SeqBags == {Undef}

SeqGroups == {Undef}

SeqValues == {Num(1)}

SeqProps == {Null, Str(<<"a">>)}

SeqNumbers == {Num(9)}

SeqOptOuts == {Undef}

SeqSupers == {Undef, Obj(<<"a">> :> Num(1))}

CallTokens == {Undef, Null, Str(<<>>), Str(<<" ">>), Str(<<"t">>)}

CallNames ==
    {Undef, Null, Num(5), Str(<<>>), Str(<<" ">>), Str(<<"\t", "\n">>),
     Str(<<"a">>), Str(<<" ", "a", " ">>)}

CallBags ==
    {Undef, Null, EmptyObj, Obj(<<"a">> :> Num(1)), Arr(<<>>), Str(<<"x">>),
     Num(0), Bool(FALSE)}

CallGroups == {Undef, Null, EmptyObj, Obj(<<"c", "o">> :> Num(1))}

CallValues ==
    {Undef, Null, Num(30), Str(<<"x">>), Arr(<<>>), Arr(<<Str(<<"x">>), Str(<<"y">>)>>),
     Obj(<<"a">> :> Num(1))}

CallProps ==
    CallNames \cup
    {EmptyObj, Obj(<<"a">> :> Num(30)),
     Obj(<<"a">> :> Num(30) @@ <<"c">> :> Str(<<"N", "Y", "C">>)),
     Obj(<<"a">> :> Undef), Obj(<<"a">> :> NaN),
     Obj(<<"a">> :> Str(<<"a", "b", "c">>)),
     Obj(<<"a">> :> Str(<<"1", "2", "a", "b", "c">>)),
     Obj(<<"a">> :> Num(2) @@ <<"b">> :> Inf(FALSE)),
     Obj(<<"a">> :> Obj(<<"b">> :> Undef)),
     Obj(<<"a">> :> Arr(<<Undef, Num(1)>>)),
     Arr(<<Num(1)>>), Arr(<<Undef>>), Arr(<<Str(<<"x">>)>>)}

CallNumbers ==
    {Undef, Null, Bool(TRUE), Num(0), Num(9), Num(-5), NaN, Inf(FALSE), Inf(TRUE),
     Str(<<>>), Str(<<"3">>), Str(<<" ", "7">>), Str(<<"-", "4">>),
     Str(<<"1", "2", "a", "b", "c">>), Str(<<"a", "b", "c">>), Str(InfinityChars),
     Arr(<<Num(5)>>), EmptyObj}

CallOptOuts == {Undef, Bool(TRUE), Bool(FALSE)}

CallSupers ==
    {Undef, Null, EmptyObj, Obj(<<"a">> :> Num(1)),
     Obj(LibVersionKey :> Str(<<"9">>)),
     Obj(<<"m", "p", "_", "l", "i", "b">> :> Str(<<"x">>) @@ <<"a">> :> Num(1)),
     Str(<<"a", "b">>), Arr(<<Num(7)>>)}

(***************************************************************************)
(* Spec: a tracker has been constructed; the application then makes up to  *)
(* MaxCalls facade calls, and pending promises resolve at any time         *)
(***************************************************************************)
Init ==
    /\ heap = NewMixpanel(<<>>, InitToken).heap
    /\ tracker = 1
    /\ delegate = <<>>
    /\ calls = <<>>
    /\ platform \in SeqPlatforms

Next ==
    \/ \E token \in SeqTokens : Mixpanel_constructor(token)
    \/ \E token \in SeqTokens : People_constructor(token)
    \/ \E token \in SeqTokens, groupKey \in SeqNames, groupID \in SeqValues :
           MixpanelGroup_constructor(token, groupKey, groupID)
    \/ \E optOut \in SeqOptOuts, superProperties \in SeqSupers :
           Mixpanel_init(optOut, superProperties)
    \/ \E token \in SeqTokens, optOut \in SeqOptOuts :
           Mixpanel_static_init(token, optOut)
    \/ \E v \in SeqValues : Mixpanel_setServerURL(v)
    \/ \E v \in SeqValues : Mixpanel_setLoggingEnabled(v)
    \/ \E v \in SeqValues : Mixpanel_setFlushOnBackground(v)
    \/ \E v \in SeqValues : Mixpanel_setUseIpAddressForGeolocation(v)
    \/ Mixpanel_hasOptedOutTracking
    \/ Mixpanel_optInTracking
    \/ Mixpanel_optOutTracking
    \/ \E distinctId \in SeqNames : Mixpanel_identify(distinctId)
    \/ \E alias \in SeqNames, distinctId \in SeqNames :
           Mixpanel_alias(alias, distinctId)
    \/ \E eventName \in SeqNames, properties \in SeqBags :
           Mixpanel_track(eventName, properties)
    \/ Mixpanel_getPeople
    \/ \E eventName \in SeqNames, properties \in SeqBags, groups \in SeqGroups :
           Mixpanel_trackWithGroups(eventName, properties, groups)
    \/ \E groupKey \in SeqNames, groupID \in SeqValues :
           Mixpanel_setGroup(groupKey, groupID)
    \/ \E groupKey \in SeqNames, groupID \in SeqValues :
           Mixpanel_getGroup(groupKey, groupID)
    \/ \E groupKey \in SeqNames, groupID \in SeqValues :
           Mixpanel_addGroup(groupKey, groupID)
    \/ \E groupKey \in SeqNames, groupID \in SeqValues :
           Mixpanel_removeGroup(groupKey, groupID)
    \/ \E groupKey \in SeqNames, groupID \in SeqValues :
           Mixpanel_deleteGroup(groupKey, groupID)
    \/ \E properties \in SeqBags : Mixpanel_registerSuperProperties(properties)
    \/ \E properties \in SeqBags : Mixpanel_registerSuperPropertiesOnce(properties)
    \/ \E propertyName \in SeqNames : Mixpanel_unregisterSuperProperty(propertyName)
    \/ Mixpanel_getSuperProperties
    \/ Mixpanel_clearSuperProperties
    \/ \E eventName \in SeqNames : Mixpanel_timeEvent(eventName)
    \/ \E eventName \in SeqNames : Mixpanel_eventElapsedTime(eventName)
    \/ Mixpanel_reset
    \/ Mixpanel_getDistinctId
    \/ Mixpanel_flush
    \/ \E this \in Instances("People"), prop \in SeqProps, to \in SeqValues :
           People_set(this, prop, to)
    \/ \E this \in Instances("People"), prop \in SeqProps, to \in SeqValues :
           People_setOnce(this, prop, to)
    \/ \E this \in Instances("People"), prop \in SeqProps, by \in SeqNumbers :
           People_increment(this, prop, by)
    \/ \E this \in Instances("People"), name \in SeqNames, value \in SeqValues :
           People_append(this, name, value)
    \/ \E this \in Instances("People"), name \in SeqNames, value \in SeqValues :
           People_union(this, name, value)
    \/ \E this \in Instances("People"), name \in SeqNames, value \in SeqValues :
           People_remove(this, name, value)
    \/ \E this \in Instances("People"), name \in SeqNames : People_unset(this, name)
    \/ \E this \in Instances("People"), charge \in SeqNumbers, properties \in SeqBags :
           People_trackCharge(this, charge, properties)
    \/ \E this \in Instances("People") : People_clearCharges(this)
    \/ \E this \in Instances("People") : People_deleteUser(this)
    \/ \E this \in Instances("MixpanelGroup"), prop \in SeqProps, to \in SeqValues :
           MixpanelGroup_set(this, prop, to)
    \/ \E this \in Instances("MixpanelGroup"), prop \in SeqProps, to \in SeqValues :
           MixpanelGroup_setOnce(this, prop, to)
    \/ \E this \in Instances("MixpanelGroup"), prop \in SeqNames :
           MixpanelGroup_unset(this, prop)
    \/ \E this \in Instances("MixpanelGroup"), name \in SeqNames, value \in SeqValues :
           MixpanelGroup_remove(this, name, value)
    \/ \E this \in Instances("MixpanelGroup"), name \in SeqNames, value \in SeqValues :
           MixpanelGroup_union(this, name, value)
    \/ \E i \in 1..Len(calls) : Mixpanel_init_resume(i)
    \/ \E i \in 1..Len(calls) : Mixpanel_static_init_resume(i)

Spec == Init /\ [][Next]_vars

(***************************************************************************)
(* SpecCall: a tracker and a group handle have been obtained; the          *)
(* application makes one facade call                                       *)
(***************************************************************************)
InitCall ==
    /\ heap = NewMixpanelGroup(NewMixpanel(<<>>, InitToken).heap, InitToken,
                               InitGroupKey, Num(1)).heap
    /\ tracker = 1
    /\ delegate = <<>>
    /\ calls = <<>>
    /\ platform \in CallPlatforms

First == calls = <<>>

NextCall ==
    \/ \E token \in CallTokens : First /\ Mixpanel_constructor(token)
    \/ \E token \in CallTokens : First /\ People_constructor(token)
    \/ \E token \in CallTokens, groupKey \in CallNames, groupID \in CallValues :
           First /\ MixpanelGroup_constructor(token, groupKey, groupID)
    \/ \E optOut \in CallOptOuts, superProperties \in CallSupers :
           First /\ Mixpanel_init(optOut, superProperties)
    \/ \E token \in CallTokens, optOut \in CallOptOuts :
           First /\ Mixpanel_static_init(token, optOut)
    \/ \E v \in CallValues : First /\ Mixpanel_setServerURL(v)
    \/ \E v \in CallValues : First /\ Mixpanel_setLoggingEnabled(v)
    \/ \E v \in CallValues : First /\ Mixpanel_setFlushOnBackground(v)
    \/ \E v \in CallValues : First /\ Mixpanel_setUseIpAddressForGeolocation(v)
    \/ First /\ Mixpanel_hasOptedOutTracking
    \/ First /\ Mixpanel_optInTracking
    \/ First /\ Mixpanel_optOutTracking
    \/ \E distinctId \in CallNames : First /\ Mixpanel_identify(distinctId)
    \/ \E alias \in CallNames, distinctId \in CallNames :
           First /\ Mixpanel_alias(alias, distinctId)
    \/ \E eventName \in CallNames, properties \in CallBags :
           First /\ Mixpanel_track(eventName, properties)
    \/ First /\ Mixpanel_getPeople
    \/ \E eventName \in CallNames, properties \in CallBags, groups \in CallGroups :
           First /\ Mixpanel_trackWithGroups(eventName, properties, groups)
    \/ \E groupKey \in CallNames, groupID \in CallValues :
           First /\ Mixpanel_setGroup(groupKey, groupID)
    \/ \E groupKey \in CallNames, groupID \in CallValues :
           First /\ Mixpanel_getGroup(groupKey, groupID)
    \/ \E groupKey \in CallNames, groupID \in CallValues :
           First /\ Mixpanel_addGroup(groupKey, groupID)
    \/ \E groupKey \in CallNames, groupID \in CallValues :
           First /\ Mixpanel_removeGroup(groupKey, groupID)
    \/ \E groupKey \in CallNames, groupID \in CallValues :
           First /\ Mixpanel_deleteGroup(groupKey, groupID)
    \/ \E properties \in CallBags :
           First /\ Mixpanel_registerSuperProperties(properties)
    \/ \E properties \in CallBags :
           First /\ Mixpanel_registerSuperPropertiesOnce(properties)
    \/ \E propertyName \in CallNames :
           First /\ Mixpanel_unregisterSuperProperty(propertyName)
    \/ First /\ Mixpanel_getSuperProperties
    \/ First /\ Mixpanel_clearSuperProperties
    \/ \E eventName \in CallNames : First /\ Mixpanel_timeEvent(eventName)
    \/ \E eventName \in CallNames : First /\ Mixpanel_eventElapsedTime(eventName)
    \/ First /\ Mixpanel_reset
    \/ First /\ Mixpanel_getDistinctId
    \/ First /\ Mixpanel_flush
    \/ \E this \in Instances("People"), prop \in CallProps, to \in CallValues :
           First /\ People_set(this, prop, to)
    \/ \E this \in Instances("People"), prop \in CallProps, to \in CallValues :
           First /\ People_setOnce(this, prop, to)
    \/ \E this \in Instances("People"), prop \in CallProps, by \in CallNumbers :
           First /\ People_increment(this, prop, by)
    \/ \E this \in Instances("People"), name \in CallNames, value \in CallValues :
           First /\ People_append(this, name, value)
    \/ \E this \in Instances("People"), name \in CallNames, value \in CallValues :
           First /\ People_union(this, name, value)
    \/ \E this \in Instances("People"), name \in CallNames, value \in CallValues :
           First /\ People_remove(this, name, value)
    \/ \E this \in Instances("People"), name \in CallNames :
           First /\ People_unset(this, name)
    \/ \E this \in Instances("People"), charge \in CallNumbers, properties \in CallBags :
           First /\ People_trackCharge(this, charge, properties)
    \/ \E this \in Instances("People") : First /\ People_clearCharges(this)
    \/ \E this \in Instances("People") : First /\ People_deleteUser(this)
    \/ \E this \in Instances("MixpanelGroup"), prop \in CallProps, to \in CallValues :
           First /\ MixpanelGroup_set(this, prop, to)
    \/ \E this \in Instances("MixpanelGroup"), prop \in CallProps, to \in CallValues :
           First /\ MixpanelGroup_setOnce(this, prop, to)
    \/ \E this \in Instances("MixpanelGroup"), prop \in CallNames :
           First /\ MixpanelGroup_unset(this, prop)
    \/ \E this \in Instances("MixpanelGroup"), name \in CallNames, value \in CallValues :
           First /\ MixpanelGroup_remove(this, name, value)
    \/ \E this \in Instances("MixpanelGroup"), name \in CallNames, value \in CallValues :
           First /\ MixpanelGroup_union(this, name, value)
    \/ \E i \in 1..Len(calls) : Mixpanel_init_resume(i)
    \/ \E i \in 1..Len(calls) : Mixpanel_static_init_resume(i)

SpecCall == InitCall /\ [][NextCall]_vars

(***************************************************************************)
(* SpecSet: the application calls set or setOnce of the profile updater or *)
(* of the group handle, and then calls one of the four again with the same *)
(* prop, so that what the four forward for one prop can be compared        *)
(***************************************************************************)
InitSet == InitCall /\ platform \in SeqPlatforms

\* the props a call of SpecSet may pass: any at first, then the first call's
SetProps == IF First THEN CallProps ELSE {calls[1].args[1]}

NextSet ==
    \E prop \in SetProps, to \in CallValues :
        /\ Len(calls) <= 1
        /\ \/ \E this \in Instances("People") : People_set(this, prop, to)
           \/ \E this \in Instances("People") : People_setOnce(this, prop, to)
           \/ \E this \in Instances("MixpanelGroup") : MixpanelGroup_set(this, prop, to)
           \/ \E this \in Instances("MixpanelGroup") : MixpanelGroup_setOnce(this, prop, to)

SpecSet == InitSet /\ [][NextSet]_vars

(***************************************************************************)
(* SpecUnion: the application calls union of the profile updater or of the *)
(* group handle with a name and a value, and then once more with the same  *)
(* name and that value, or the array of that value alone, so that          *)
(* union(name, v) and union(name, [v]) can be compared                     *)
(***************************************************************************)
\* the values a call of SpecUnion may pass: any at first, then the first
\* call's value or the array holding it
UnionValues ==
    IF First THEN CallValues ELSE {calls[1].args[2], Arr(<<calls[1].args[2]>>)}

UnionNames == IF First THEN CallNames ELSE {calls[1].args[1]}

NextUnion ==
    \E name \in UnionNames, value \in UnionValues :
        /\ Len(calls) <= 1
        /\ \/ \E this \in Instances("People") : People_union(this, name, value)
           \/ \E this \in Instances("MixpanelGroup") : MixpanelGroup_union(this, name, value)

SpecUnion == InitCall /\ [][NextUnion]_vars

(***************************************************************************)
(* SpecValid: the layer applies StringHelper.isValid or isValidOrUndefined *)
(* to a value: any value that is no string, or any string of at most       *)
(* MaxStrLen characters, white space or not                                *)
(***************************************************************************)
MaxStrLen == 3

ValidChars == {" ", "\t", "a"}

ValidInputs ==
    {Undef, Null, Bool(TRUE), Bool(FALSE), Num(0), Num(5), NaN, EmptyObj,
     Arr(<<>>), Arr(<<Str(<<"a">>)>>), Obj(<<"a">> :> Str(<<"a">>))} \cup
    {Str(chars) : chars \in UNION {[1..n -> ValidChars] : n \in 0..MaxStrLen}}

\* StringHelper.isValid(str), with what it returned
Apply_StringHelper_isValid(str) ==
    Invoke("StringHelper.isValid", 0, <<str>>,
           Returns(<<>>, Bool(StringHelper_isValid(str))))

\* StringHelper.isValidOrUndefined(str), with what it returned
Apply_StringHelper_isValidOrUndefined(str) ==
    Invoke("StringHelper.isValidOrUndefined", 0, <<str>>,
           Returns(<<>>, Bool(StringHelper_isValidOrUndefined(str))))

NextValid ==
    \/ \E str \in ValidInputs : First /\ Apply_StringHelper_isValid(str)
    \/ \E str \in ValidInputs : First /\ Apply_StringHelper_isValidOrUndefined(str)

SpecValid == InitCall /\ [][NextValid]_vars

(***************************************************************************)
(* SpecGroup: the application constructs facade instances, by new or by    *)
(* getGroup of its tracker, twice, with arguments of every kind            *)
(***************************************************************************)
NextGroup ==
    /\ Len(calls) <= 1
    /\ \/ \E token \in CallTokens : Mixpanel_constructor(token)
       \/ \E token \in CallTokens : People_constructor(token)
       \/ \E token \in CallTokens, groupKey \in CallNames, groupID \in SeqValues :
              MixpanelGroup_constructor(token, groupKey, groupID)
       \/ \E groupKey \in CallNames, groupID \in CallValues :
              Mixpanel_getGroup(groupKey, groupID)

SpecGroup == InitSet /\ [][NextGroup]_vars

(***************************************************************************)
(* SpecIsolate: the application holds two objects, one a property of the   *)
(* other, passes one of them to set or setOnce, and changes properties of  *)
(* its objects afterwards                                                  *)
(***************************************************************************)
\* the heap of InitCall with the application's objects: {a: 30, n: inner} and
\* inner = {b: 1}
IsolateHeap ==
    LET base == NewMixpanelGroup(NewMixpanel(<<>>, InitToken).heap, InitToken,
                                 InitGroupKey, Num(1)).heap
    IN  base \o
        <<[cls |-> "Object",
           value |-> Obj(<<"a">> :> Num(30) @@ <<"n">> :> Ref(Len(base) + 2))],
          [cls |-> "Object", value |-> Obj(<<"b">> :> Num(1))]>>

InitIsolate ==
    /\ heap = IsolateHeap
    /\ tracker = 1
    /\ delegate = <<>>
    /\ calls = <<>>
    /\ platform \in SeqPlatforms

IsolateKeys == {<<"a">>, <<"b">>}

IsolateValues == {Num(7), Str(<<"x">>)}

\* the application assigns object[key] = value on one of its objects
Caller_assign(id, key, value) ==
    /\ id \in Instances("Object")
    /\ calls # <<>>
    /\ heap' = [heap EXCEPT ![id].value = Obj((key :> value) @@ heap[id].value.o)]
    /\ UNCHANGED <<tracker, delegate, calls, platform>>

NextIsolate ==
    \/ \E id \in Instances("Object"), to \in SeqValues :
           /\ First
           /\ \/ \E this \in Instances("People") : People_set(this, Ref(id), to)
              \/ \E this \in Instances("People") : People_setOnce(this, Ref(id), to)
              \/ \E this \in Instances("MixpanelGroup") :
                     MixpanelGroup_set(this, Ref(id), to)
              \/ \E this \in Instances("MixpanelGroup") :
                     MixpanelGroup_setOnce(this, Ref(id), to)
    \/ \E id \in Instances("Object"), key \in IsolateKeys, value \in IsolateValues :
           Caller_assign(id, key, value)

SpecIsolate == InitIsolate /\ [][NextIsolate]_vars

(***************************************************************************)
(* Vocabulary of the properties                                            *)
(***************************************************************************)
CallIds == 1..Len(calls)

Failed(c) == c.result \in {"Error", "TypeError"}

\* the call made what it was invoked for (an async call may still be pending)
Succeeded(c) == c.result \in {"ok", "pending"}

\* the native call the facade call i made, when it made one
NativeOf(i) == delegate[calls[i].at + 1]

\* the messages of an InvalidArgument failure: a parameter name and a suffix
ParamNames == {PARAMS[k] : k \in DOMAIN PARAMS}

Suffixes == {ERROR_MESSAGE[k] : k \in DOMAIN ERROR_MESSAGE}

InvalidArgumentMessages == {p \o x : p \in ParamNames, x \in Suffixes}

\* a finite number, as opposed to NaN, an infinity or a value of another type
IsFiniteNumber(v) == v.t = "number"

\* the positions of the name and key arguments of a native call
NameArgs(c) ==
    CASE c.op \in {"identify", "track", "trackWithGroups", "timeEvent",
                   "eventElapsedTime", "setGroup", "addGroup", "removeGroup",
                   "deleteGroup", "unregisterSuperProperty", "unset",
                   "groupSetProperties", "groupSetPropertyOnce"} -> {2}
      [] c.op = "alias" -> {2, 3}
      [] c.op \in {"append", "union", "remove"} /\ Len(c.args) = 3 -> {2}
      [] c.op \in {"groupUnsetProperty", "groupRemovePropertyValue",
                   "groupUnionProperty"} -> {2, 4}
      [] OTHER -> {}

(***************************************************************************)
(* C1: an operation that fails argument validation has made no call on the *)
(* delegate: every failed facade call sent nothing when it was invoked.    *)
(* Stated as claimed; the static Mixpanel.init breaks it.                  *)
(***************************************************************************)
C1_FailedCallSentNothing ==
    \A i \in CallIds : calls[i].result = "Error" => calls[i].sent = 0

(***************************************************************************)
(* C2: every name or key argument the delegate has received (distinctId,   *)
(* alias, eventName, groupKey, property name) is a non-blank string.       *)
(* Stated as claimed; a handle of getGroup breaks it.                      *)
(***************************************************************************)
C2_ForwardedNamesAreValid ==
    \A k \in 1..Len(delegate) :
        \A n \in NameArgs(delegate[k]) : StringHelper_isValid(delegate[k].args[n])

(***************************************************************************)
(* C3: every numeric argument the delegate has received is a finite        *)
(* number: the charge of trackCharge and every value of the map of         *)
(* increment.  Stated as claimed; parseFloat's leniency breaks it.         *)
(***************************************************************************)
C3_ForwardedNumbersAreFinite ==
    \A k \in 1..Len(delegate) :
        /\ delegate[k].op = "trackCharge" => IsFiniteNumber(delegate[k].args[2])
        /\ delegate[k].op = "increment" =>
               \A key \in DOMAIN delegate[k].args[2].o :
                   IsFiniteNumber(delegate[k].args[2].o[key])

\* where a facade method takes a property bag, and where the native call has it
BagParams(op) ==
    CASE op \in {"Mixpanel.track", "People.trackCharge"} -> {<<2, 3>>}
      [] op = "Mixpanel.trackWithGroups" -> {<<2, 3>>, <<3, 4>>}
      [] op \in {"Mixpanel.registerSuperProperties",
                 "Mixpanel.registerSuperPropertiesOnce"} -> {<<1, 2>>}
      [] OTHER -> {}

(***************************************************************************)
(* C4: when the caller passes undefined for a property bag (the properties *)
(* of track, trackWithGroups, registerSuperProperties[Once] and            *)
(* trackCharge, the groups of trackWithGroups), the delegate receives {}   *)
(* for it; for init, whose bag is merged over the metadata, the delegate   *)
(* receives the metadata merged with {}.  Stated as claimed; the groups of *)
(* trackWithGroups break it.                                               *)
(***************************************************************************)
C4_UndefinedBagBecomesEmpty ==
    \A i \in CallIds :
        calls[i].sent = 1 =>
            /\ \A b \in BagParams(calls[i].op) :
                   calls[i].args[b[1]] = Undef => NativeOf(i).args[b[2]] = EmptyObj
            /\ (calls[i].op = "Mixpanel.init" /\ calls[i].args[2] = Undef) =>
                   NativeOf(i).args[3] = Helper_getMetaData

(***************************************************************************)
(* C5: a facade call either makes its delegate call or fails with an       *)
(* InvalidArgument error, whose message is a parameter name followed by    *)
(* one of the three suffixes; it fails in no other way.  Stated as         *)
(* claimed; People.increment(null) breaks it.                              *)
(***************************************************************************)
C5_OnlyInvalidArgument ==
    \A i \in CallIds :
        \/ Succeeded(calls[i])
        \/ calls[i].result = "Error" /\ calls[i].msg \in InvalidArgumentMessages

\* the native operation each forwarding facade method calls
NativeOp ==
    [op \in {"Mixpanel.init", "static Mixpanel.init"} |-> "initialize"] @@
    ("MixpanelGroup.set" :> "groupSetProperties") @@
    ("MixpanelGroup.setOnce" :> "groupSetPropertyOnce") @@
    ("MixpanelGroup.unset" :> "groupUnsetProperty") @@
    ("MixpanelGroup.remove" :> "groupRemovePropertyValue") @@
    ("MixpanelGroup.union" :> "groupUnionProperty") @@
    [op \in {"Mixpanel." \o m : m \in
                {"setServerURL", "setLoggingEnabled", "setFlushOnBackground",
                 "setUseIpAddressForGeolocation", "hasOptedOutTracking",
                 "optInTracking", "optOutTracking", "identify", "alias", "track",
                 "trackWithGroups", "setGroup", "addGroup", "removeGroup",
                 "deleteGroup", "registerSuperProperties",
                 "registerSuperPropertiesOnce", "unregisterSuperProperty",
                 "getSuperProperties", "clearSuperProperties", "timeEvent",
                 "eventElapsedTime", "reset", "getDistinctId", "flush"}} |->
        SubSeq(op, 10, Len(op))] @@
    [op \in {"People." \o m : m \in
                {"set", "setOnce", "increment", "append", "union", "remove",
                 "unset", "trackCharge", "clearCharges", "deleteUser"}} |->
        SubSeq(op, 8, Len(op))]

(***************************************************************************)
(* C6: operations are not gated on init: the native calls the delegate has *)
(* received are, in order, one call of the corresponding native operation  *)
(* for each forwarding facade call that succeeded (or is still awaiting    *)
(* the native promise), and nothing else; so no facade call sends a second *)
(* native call, and alias sends no identify.  Stated as claimed; the       *)
(* initialize of a static Mixpanel.init that fails afterwards breaks it.   *)
(***************************************************************************)
C6_DelegateLogIsSuccessfulCalls ==
    LET done == SelectSeq(calls, LAMBDA c : Succeeded(c) /\ c.op \in DOMAIN NativeOp)
    IN  /\ Len(delegate) = Len(done)
        /\ \A k \in 1..Len(done) : delegate[k].op = NativeOp[done[k].op]
        /\ \A i \in CallIds : calls[i].sent <= 1

\* the facade calls that construct an instance, and the instance fields their
\* arguments give
Constructed(c) ==
    CASE c.op \in {"new Mixpanel", "static Mixpanel.init"} ->
             [cls |-> "Mixpanel", token |-> c.args[1], people |-> c.ret.id + 1]
      [] c.op = "new People" -> [cls |-> "People", token |-> c.args[1]]
      [] c.op = "new MixpanelGroup" ->
             [cls |-> "MixpanelGroup", token |-> c.args[1],
              groupKey |-> c.args[2], groupID |-> c.args[3]]
      [] c.op = "Mixpanel.getGroup" ->
             [cls |-> "MixpanelGroup", token |-> heap[c.this].token,
              groupKey |-> c.args[1], groupID |-> c.args[2]]

(***************************************************************************)
(* C7: in every reachable state the tracker's token is a non-blank string; *)
(* every tracker owns the People instance allocated by its constructor,    *)
(* which has the tracker's token; every call of getPeople has returned     *)
(* that instance; and every instance still holds the token, groupKey and   *)
(* groupID its construction gave it, whatever was called since.            *)
(***************************************************************************)
C7_TrackerOwnsOnePeople ==
    /\ StringHelper_isValid(heap[tracker].token)
    /\ heap[1].token = InitToken
    /\ \A m \in Instances("Mixpanel") :
           /\ heap[m].people = m + 1
           /\ heap[m + 1].cls = "People"
           /\ heap[m + 1].token = heap[m].token
    /\ \A i \in CallIds :
           /\ calls[i].op = "Mixpanel.getPeople" =>
                  /\ calls[i].result = "ok"
                  /\ calls[i].ret = Ref(calls[i].this + 1)
           /\ (calls[i].op \in {"new Mixpanel", "static Mixpanel.init", "new People",
                                "new MixpanelGroup", "Mixpanel.getGroup"}
               /\ calls[i].result = "ok") =>
                  heap[calls[i].ret.id] = Constructed(calls[i])

\* getPeople has been called twice on a tracker constructed by the application
C7_Witness ==
    /\ Len(calls) = 2
    /\ calls[1].op = "new Mixpanel" /\ calls[1].result = "ok"
    /\ calls[2].op = "Mixpanel.getPeople" /\ calls[2].this = calls[1].ret.id

(***************************************************************************)
(* C8: init calls initialize with the token, the opt-out default (false    *)
(* when omitted) and a map that has, for every key of superProperties,     *)
(* the caller's value, and for every other key of the metadata the         *)
(* metadata's value; the metadata is the package metadata with the         *)
(* library-version key set to the package version.                         *)
(***************************************************************************)
C8_InitMergesOverMetadata ==
    \A i \in CallIds :
        calls[i].op = "Mixpanel.init" =>
            LET optOut == calls[i].args[1]
                supers == OwnProps(calls[i].args[2])
                metadata == (LibVersionKey :> packageJson.version) @@
                            packageJson.metadata.o
                merged == NativeOf(i).args[3].o
            IN  /\ Succeeded(calls[i]) /\ calls[i].sent = 1
                /\ NativeOf(i).op = "initialize"
                /\ NativeOf(i).args[1] = heap[calls[i].this].token
                /\ NativeOf(i).args[2] = IF optOut = Undef THEN Bool(FALSE) ELSE optOut
                /\ DOMAIN merged = DOMAIN supers \cup DOMAIN metadata
                /\ \A k \in DOMAIN merged :
                       merged[k] = IF k \in DOMAIN supers THEN supers[k] ELSE metadata[k]

\* init has been called with a superProperties that sets the library-version key
C8_Witness ==
    \E i \in CallIds :
        /\ calls[i].op = "Mixpanel.init"
        /\ calls[i].args[1] = Undef
        /\ calls[i].args[2].t = "object"
        /\ LibVersionKey \in DOMAIN calls[i].args[2].o
        /\ NativeOf(i).args[3].o[LibVersionKey] # packageJson.version

\* the four methods that set profile or group properties
SetOps == {"People.set", "People.setOnce", "MixpanelGroup.set", "MixpanelGroup.setOnce"}

\* the property bag a set or setOnce call forwarded: the native call's last argument
Bag(i) == NativeOf(i).args[Len(NativeOf(i).args)]

RECURSIVE JsonClean(_)
\* v is made of what JSON has: null, booleans, finite numbers, strings, arrays
\* and objects of such values
JsonClean(v) ==
    CASE v.t = "object" -> \A k \in DOMAIN v.o : JsonClean(v.o[k])
      [] v.t = "array" -> \A n \in 1..Len(v.a) : JsonClean(v.a[n])
      [] OTHER -> v.t \in {"null", "boolean", "number", "string"}

RECURSIVE JsonRoundTrip(_, _)
\* copy is what a JSON round trip leaves of v
JsonRoundTrip(copy, v) ==
    CASE v.t = "object" ->
             /\ copy.t = "object"
             /\ DOMAIN copy.o = {k \in DOMAIN v.o : v.o[k] # Undef}
             /\ \A k \in DOMAIN copy.o : JsonRoundTrip(copy.o[k], v.o[k])
      [] v.t = "array" ->
             /\ copy.t = "array"
             /\ Len(copy.a) = Len(v.a)
             /\ \A n \in 1..Len(v.a) :
                    IF v.a[n] = Undef THEN copy.a[n] = Null
                    ELSE JsonRoundTrip(copy.a[n], v.a[n])
      [] OTHER -> copy = IF JsonClean(v) THEN v ELSE Null

C10_PackingFollowsPlatform ==
    \A i \in CallIds :
        LET c == calls[i]
            name == c.args[1]
            value == IF c.op \in {"People.union", "MixpanelGroup.union"}
                        /\ c.args[2].t # "array"
                     THEN Arr(<<c.args[2]>>) ELSE c.args[2]
        IN  /\ (c.op \in {"People.append", "People.remove", "People.union"}
                /\ StringHelper_isValid(name)) =>
                   /\ c.result = "ok" /\ c.sent = 1
                   /\ NativeOf(i).op = NativeOp[c.op]
                   /\ NativeOf(i).args =
                          IF platform = "ios"
                          THEN <<heap[c.this].token, Obj(name.s :> value)>>
                          ELSE <<heap[c.this].token, name, value>>
            /\ (c.op \in {"MixpanelGroup.remove", "MixpanelGroup.union"}
                /\ StringHelper_isValid(name)) =>
                   /\ c.result = "ok" /\ c.sent = 1
                   /\ NativeOf(i).op = NativeOp[c.op]
                   /\ NativeOf(i).args =
                          <<heap[c.this].token, heap[c.this].groupKey,
                            heap[c.this].groupID, name, value>>

\* People.union has sent the two-argument shape on a platform that is neither
\* ios nor android
C10_Witness ==
    /\ platform \notin {"ios", "android"}
    /\ \E i \in CallIds :
           /\ calls[i].op = "People.union"
           /\ calls[i].result = "ok"
           /\ Len(NativeOf(i).args) = 3

\* the value a union call forwarded, wherever the native call's shape has it
UnionValue(i) ==
    CASE calls[i].op = "MixpanelGroup.union" -> NativeOf(i).args[5]
      [] Len(NativeOf(i).args) = 3 -> NativeOf(i).args[3]
      [] OTHER -> NativeOf(i).args[2].o[calls[i].args[1].s]

(***************************************************************************)
(* C11: a union call of People or MixpanelGroup that succeeds forwards an  *)
(* array: the argument itself when it is an array, the one-element array   *)
(* of the argument otherwise.  So union(name, v) with v no array and       *)
(* union(name, [v]) on the same instance end alike and send the same       *)
(* native call, and a union call passing what an earlier one forwarded     *)
(* forwards it unchanged.                                                  *)
(***************************************************************************)
C11_UnionForwardsArray ==
    /\ \A i \in CallIds :
           (calls[i].op \in {"People.union", "MixpanelGroup.union"}
            /\ calls[i].result = "ok") =>
               LET v == calls[i].args[2]
               IN  /\ UnionValue(i).t = "array"
                   /\ v.t = "array" => UnionValue(i) = v
                   /\ v.t # "array" => UnionValue(i) = Arr(<<v>>)
    /\ \A i, j \in CallIds :
           (/\ calls[i].op \in {"People.union", "MixpanelGroup.union"}
            /\ calls[j].op = calls[i].op /\ calls[j].this = calls[i].this
            /\ calls[j].args[1] = calls[i].args[1]) =>
               /\ (calls[i].args[2].t # "array"
                   /\ calls[j].args[2] = Arr(<<calls[i].args[2]>>)) =>
                      /\ calls[j].result = calls[i].result
                      /\ calls[i].result = "ok" => NativeOf(j) = NativeOf(i)
               /\ (calls[i].result = "ok" /\ calls[j].args[2] = UnionValue(i)) =>
                      calls[j].result = "ok" /\ UnionValue(j) = UnionValue(i)

\* People.union has been called with "x" and then with ["x"], and sent the same
C11_Witness ==
    /\ Len(calls) = 2
    /\ calls[1].op = "People.union" /\ calls[2].op = "People.union"
    /\ calls[1].args[2] = Str(<<"x">>)
    /\ calls[2].args[2] = Arr(<<Str(<<"x">>)>>)
    /\ calls[1].result = "ok" /\ calls[2].result = "ok"
    /\ NativeOf(1) = NativeOf(2)

(***************************************************************************)
(* C12: People.increment with a non-blank string prop forwards {prop: 1}   *)
(* when by is omitted and {prop: by} when by is a finite number, zero      *)
(* included; with an object one of whose values does not parse as a number *)
(* it fails with InvalidArgument and sends nothing.  Stated as claimed;    *)
(* increment(prop, 0) breaks it.                                           *)
(***************************************************************************)
C12_IncrementForwardsAmount ==
    \A i \in CallIds :
        calls[i].op = "People.increment" =>
            LET prop == calls[i].args[1]
                by == calls[i].args[2]
                token == heap[calls[i].this].token
            IN  /\ (StringHelper_isValid(prop) /\ by = Undef) =>
                       /\ calls[i].result = "ok" /\ calls[i].sent = 1
                       /\ NativeOf(i) = NativeCall("increment",
                                            <<token, Obj(prop.s :> Num(1))>>)
                /\ (StringHelper_isValid(prop) /\ IsFiniteNumber(by)) =>
                       /\ calls[i].result = "ok" /\ calls[i].sent = 1
                       /\ NativeOf(i) = NativeCall("increment",
                                            <<token, Obj(prop.s :> by)>>)
                /\ (prop.t = "object"
                    /\ \E k \in DOMAIN prop.o : IsNaN(ParseFloat(prop.o[k]))) =>
                       /\ calls[i].result = "Error" /\ calls[i].sent = 0
                       /\ calls[i].msg \in InvalidArgumentMessages

\* v is a string with a character that is no white space
HasNonSpace(v) == v.t = "string" /\ \E n \in 1..Len(v.s) : v.s[n] \notin WhiteSpace

(***************************************************************************)
(* C13: StringHelper.isValid(v) returns true exactly when v is a string    *)
(* with at least one character that is no white space, so false for the    *)
(* empty string, a string of white space and every value that is no        *)
(* string; isValidOrUndefined(v) returns true exactly when v is undefined  *)
(* or such a string.                                                       *)
(***************************************************************************)
C13_StringValidity ==
    \A i \in CallIds :
        LET v == calls[i].args[1]
        IN  /\ calls[i].op = "StringHelper.isValid" =>
                   /\ calls[i].ret = Bool(HasNonSpace(v))
                   /\ v.t # "string" => calls[i].ret = Bool(FALSE)
                   /\ v = Str(<<>>) => calls[i].ret = Bool(FALSE)
            /\ calls[i].op = "StringHelper.isValidOrUndefined" =>
                   calls[i].ret = Bool(v = Undef \/ HasNonSpace(v))

\* isValid has been applied to a string of two or more white space characters
C13_Witness ==
    \E i \in CallIds :
        /\ calls[i].op = "StringHelper.isValid"
        /\ calls[i].args[1].t = "string"
        /\ Len(calls[i].args[1].s) >= 2
        /\ ~HasNonSpace(calls[i].args[1])
        /\ calls[i].ret = Bool(FALSE)

\* the calls that construct an instance by new or by getGroup
NewOps == {"new Mixpanel", "new People", "new MixpanelGroup", "Mixpanel.getGroup"}

\* the instances the application holds before its first call
InitialInstances ==
    1..Len(NewMixpanelGroup(NewMixpanel(<<>>, InitToken).heap, InitToken,
                            InitGroupKey, Num(1)).heap)

\* every getGroup call so far has returned a handle no earlier call returned and
\* the application did not hold, with the tracker's token and the call's arguments
C14_HandlesAreNew ==
    \A i \in CallIds :
        /\ calls[i].op \in NewOps => calls[i].sent = 0
        /\ calls[i].op = "Mixpanel.getGroup" =>
               /\ calls[i].result = "ok"
               /\ calls[i].ret.t = "ref"
               /\ calls[i].ret.id \notin InitialInstances
               /\ \A j \in CallIds : j # i => calls[j].ret # calls[i].ret
               /\ heap[calls[i].ret.id] =
                      [cls |-> "MixpanelGroup", token |-> heap[calls[i].this].token,
                       groupKey |-> calls[i].args[1], groupID |-> calls[i].args[2]]

\* a step that is a call of getGroup or of a constructor sends nothing, and
\* getGroup leaves the tracker and every instance there was as they were
C14_StepIsSilent ==
    (Len(calls') = Len(calls) + 1 /\ calls'[Len(calls')].op \in NewOps) =>
        /\ delegate' = delegate
        /\ calls'[Len(calls')].op = "Mixpanel.getGroup" =>
               /\ tracker' = tracker
               /\ \A id \in 1..Len(heap) : heap'[id] = heap[id]

(***************************************************************************)
(* C14: constructing a Mixpanel, a People or a MixpanelGroup sends nothing *)
(* to the delegate; getGroup(groupKey, groupID) succeeds for every         *)
(* groupKey and groupID, sends nothing, leaves the tracker and the other   *)
(* instances unchanged, and returns a handle that is new at every call,    *)
(* also for arguments passed before, holding the tracker's token and the   *)
(* groupKey and groupID passed.                                            *)
(***************************************************************************)
C14_ConstructionIsSilent == []C14_HandlesAreNew /\ [][C14_StepIsSilent]_vars

\* getGroup has been called twice with the same blank groupKey and has returned
\* two handles
C14_Witness ==
    /\ Len(calls) = 2
    /\ calls[1].op = "Mixpanel.getGroup" /\ calls[2].op = "Mixpanel.getGroup"
    /\ calls[1].args = calls[2].args
    /\ ~StringHelper_isValid(calls[1].args[1])
    /\ calls[1].ret # calls[2].ret
    /\ delegate = <<>>

\* the parameters of the facade methods that validate an argument, as their
\* declarations name them
Signature ==
    [op \in {"new Mixpanel", "new People"} |-> <<"token">>] @@
    ("static Mixpanel.init" :> <<"token", "optOutTrackingDefault">>) @@
    ("new MixpanelGroup" :> <<"token", "groupKey", "groupID">>) @@
    ("Mixpanel.identify" :> <<"distinctId">>) @@
    ("Mixpanel.alias" :> <<"alias", "distinctId">>) @@
    ("Mixpanel.track" :> <<"eventName", "properties">>) @@
    ("Mixpanel.trackWithGroups" :> <<"eventName", "properties", "groups">>) @@
    [op \in {"Mixpanel.setGroup", "Mixpanel.addGroup", "Mixpanel.removeGroup",
             "Mixpanel.deleteGroup"} |-> <<"groupKey", "groupID">>] @@
    [op \in {"Mixpanel.registerSuperProperties",
             "Mixpanel.registerSuperPropertiesOnce"} |-> <<"properties">>] @@
    ("Mixpanel.unregisterSuperProperty" :> <<"propertyName">>) @@
    [op \in {"Mixpanel.timeEvent", "Mixpanel.eventElapsedTime"} |-> <<"eventName">>] @@
    [op \in {"People.set", "People.setOnce", "MixpanelGroup.set",
             "MixpanelGroup.setOnce"} |-> <<"prop", "to">>] @@
    ("People.increment" :> <<"prop", "by">>) @@
    [op \in {"People.append", "People.union", "People.remove",
             "MixpanelGroup.remove", "MixpanelGroup.union"} |-> <<"name", "value">>] @@
    ("People.unset" :> <<"name">>) @@
    ("People.trackCharge" :> <<"charge", "properties">>) @@
    ("MixpanelGroup.unset" :> <<"prop">>)

(***************************************************************************)
(* C15: the message of every validation failure is the name of one of the  *)
(* failing method's own parameters followed by one of the three suffixes.  *)
(* Stated as claimed; People.unset(name), which reports "propertyName",    *)
(* breaks it, as do People.increment and unset, remove and union of        *)
(* MixpanelGroup.                                                          *)
(***************************************************************************)
C15_ErrorNamesParameter ==
    \A i \in CallIds :
        calls[i].result = "Error" =>
            \E n \in 1..Len(Signature[calls[i].op]) :
                calls[i].msg \in {Signature[calls[i].op][n] \o x : x \in Suffixes}

RECURSIVE ObservedIn(_, _)
\* what a holder of v finds in it when the objects are as in the heap h
ObservedIn(h, v) ==
    CASE v.t = "ref" -> ObservedIn(h, h[v.id].value)
      [] v.t = "object" -> Obj([k \in DOMAIN v.o |-> ObservedIn(h, v.o[k])])
      [] v.t = "array" -> Arr([n \in 1..Len(v.a) |-> ObservedIn(h, v.a[n])])
      [] OTHER -> v

\* the bag of every set or setOnce call made with an object of the application
\* holds now what that object held when the call was made
C16_BagKeepsContent ==
    \A i \in CallIds :
        (calls[i].op \in SetOps /\ calls[i].args[1].t = "ref") =>
            /\ calls[i].result = "ok" /\ calls[i].sent = 1
            /\ ObservedIn(heap, Bag(i)) = ObservedIn(IsolateHeap, calls[i].args[1])

\* a facade call leaves every object of the application as it was
C16_CallKeepsObjects ==
    Len(calls') = Len(calls) + 1 =>
        \A id \in Instances("Object") : heap'[id] = heap[id]

(***************************************************************************)
(* C16: a set or setOnce call of People or MixpanelGroup with an object    *)
(* prop does not change the caller's object, and the bag it hands to the   *)
(* delegate is a copy at every depth: whatever the caller assigns to its   *)
(* object or to an object nested in it afterwards, the delegate's bag      *)
(* holds what the object held when the call was made.                      *)
(***************************************************************************)
C16_BagIsIsolated == []C16_BagKeepsContent /\ [][C16_CallKeepsObjects]_vars

\* the outer object has been passed to MixpanelGroup.setOnce, and the caller has
\* assigned to the object nested in it since
C16_Witness ==
    \E i \in CallIds :
        /\ calls[i].op = "MixpanelGroup.setOnce"
        /\ calls[i].args[1].t = "ref"
        /\ \E k \in DOMAIN IsolateHeap[calls[i].args[1].id].value.o :
               LET inner == IsolateHeap[calls[i].args[1].id].value.o[k]
               IN  inner.t = "ref" /\ heap[inner.id] # IsolateHeap[inner.id]
        /\ ObservedIn(heap, calls[i].args[1]) # ObservedIn(heap, Bag(i))

\* the call i passed null for its bag and forwarded {} in place k of its one
\* native call
NullBagForwardedEmpty(i, k) ==
    /\ calls[i].result = "ok" /\ calls[i].sent = 1
    /\ NativeOf(i).op = NativeOp[calls[i].op]
    /\ NativeOf(i).args[k] = EmptyObj

(***************************************************************************)
(* C17: null passed for a property bag is an empty bag, not an error: with *)
(* null as properties, track and trackWithGroups (eventName non-blank),    *)
(* registerSuperProperties, registerSuperPropertiesOnce and trackCharge    *)
(* (charge a number) succeed with one native call whose bag is {}; with    *)
(* null as prop, set and setOnce of People and MixpanelGroup do; and when  *)
(* such a call fails for another argument, its error is not about the bag. *)
(***************************************************************************)
C17_NullIsEmptyBag ==
    \A i \in CallIds :
        LET c == calls[i]
        IN  /\ (c.op \in {"Mixpanel.track", "Mixpanel.trackWithGroups"}
                /\ c.args[2] = Null) =>
                   IF StringHelper_isValid(c.args[1]) THEN NullBagForwardedEmpty(i, 3)
                   ELSE c.msg = PARAMS.EVENT_NAME \o ERROR_MESSAGE.INVALID_STRING
            /\ (c.op \in {"Mixpanel.registerSuperProperties",
                          "Mixpanel.registerSuperPropertiesOnce"}
                /\ c.args[1] = Null) => NullBagForwardedEmpty(i, 2)
            /\ (c.op = "People.trackCharge" /\ c.args[2] = Null) =>
                   IF IsNaN(ParseFloat(c.args[1]))
                   THEN c.msg = PARAMS.CHARGE \o ERROR_MESSAGE.REQUIRED_DOUBLE
                   ELSE NullBagForwardedEmpty(i, 3)
            /\ (c.op \in {"People.set", "People.setOnce"} /\ c.args[1] = Null) =>
                   NullBagForwardedEmpty(i, 2)
            /\ (c.op \in {"MixpanelGroup.set", "MixpanelGroup.setOnce"}
                /\ c.args[1] = Null) => NullBagForwardedEmpty(i, 4)

\* trackCharge has been called with a charge and null for its properties, and
\* has sent {}
C17_Witness ==
    \E i \in CallIds :
        /\ calls[i].op = "People.trackCharge"
        /\ calls[i].args[2] = Null
        /\ calls[i].result = "ok"
        /\ NativeOf(i).args[3] = EmptyObj

====
